---- MODULE Spec2Model ----
(***************************************************************************)
(* Model of src/database/local_db.py: the FastAPI handlers create_user,    *)
(* get_user_by_slack, get_user, update_user and submissions_count over the *)
(* SQLite tables "users" and "submissions".                                *)
(*                                                                         *)
(* The handlers are plain "def" functions, so FastAPI runs each request on *)
(* a worker thread; requests interleave at their store round trips.  A     *)
(* handler with a single round trip (the two gets, the count, the 404 and  *)
(* the IntegrityError paths) is one action; create_user and update_user    *)
(* are split at session.commit() and session.refresh(), and Workers are    *)
(* the threads that may be between two round trips at the same time.       *)
(*                                                                         *)
(* datetime.utcnow() is read at microsecond resolution: the two column     *)
(* defaults of one INSERT may read the same value or two; a read in a      *)
(* later request, a store round trip away, reads a later one.              *)
(*                                                                         *)
(* resp is what the request that just ended answered.  Nothing reads it,   *)
(* so the next step is taken once it has been delivered.                   *)
(*                                                                         *)
(* A nullable column value is None (<<>>) or <<v>>.                         *)
(***************************************************************************)
EXTENDS Integers, FiniteSets, Sequences, TLC

VARIABLES
    users,        \* rows of table "users"
    submissions,  \* rows of table "submissions"
    now,          \* the latest value datetime.utcnow() has returned
    req,          \* per worker thread: the request it is handling
    resp,         \* the response of the request that just ended
    created,      \* history: the users no update has written yet, as created
    recorded      \* history: per author, the submissions recorded so far

vars == <<users, submissions, now, req, resp, created, recorded>>

\* ---------------------------------------------------------------- bounds
MaxClock == 3
MaxSubs  == 3

\* ---------------------------------------------------------------- inputs
Workers  == {1, 2}
SlackIds == {"U1", "U2"}
None     == <<>>
NameVals == {None, <<"ann">>}
UserIds  == 1..3

\* ---------------------------------------------------------------- schema
\* class UserUpdate: the four optional fields
Fields == {"total_xp", "current_streak", "longest_streak", "display_name"}

\* class User: Column(..., default=0)
DefaultCounter == <<0>>

\* class User: the row an INSERT of (slack_id, display_name) stores; the two
\* DateTime defaults are two calls of datetime.utcnow
User(id, slack_id, display_name, t_created, t_updated) ==
    [user_id        |-> id,
     slack_id       |-> slack_id,
     display_name   |-> display_name,
     total_xp       |-> DefaultCounter,
     current_streak |-> DefaultCounter,
     longest_streak |-> DefaultCounter,
     created_at     |-> t_created,
     updated_at     |-> t_updated]

\* class Submission
Submission(id, author_id) == [submission_id |-> id, author_id |-> author_id]

\* class UserCreate
UserCreate == [slack_id : SlackIds, display_name : NameVals]

\* class UserUpdate, parsed from a JSON body: a field the body names takes the
\* body's value, every other field its default None; fields_set is pydantic's
\* record of the fields the body named
UserUpdate(body) ==
    [fields_set     |-> DOMAIN body,
     total_xp       |-> IF "total_xp" \in DOMAIN body THEN body["total_xp"] ELSE None,
     current_streak |-> IF "current_streak" \in DOMAIN body
                        THEN body["current_streak"] ELSE None,
     longest_streak |-> IF "longest_streak" \in DOMAIN body
                        THEN body["longest_streak"] ELSE None,
     display_name   |-> IF "display_name" \in DOMAIN body
                        THEN body["display_name"] ELSE None]

\* the JSON bodies of PUT /users/{user_id} that are tried: the empty body,
\* total_xp set to a number, display_name set or null, and both streaks named,
\* one of them null
UpdateBodies ==
    {[f \in {} |-> None],
     [total_xp |-> <<0>>],
     [total_xp |-> <<1>>],
     [display_name |-> None],
     [display_name |-> <<"ann">>],
     [current_streak |-> <<1>>, longest_streak |-> None]}

UpdateInputs == {UserUpdate(body) : body \in UpdateBodies}

\* ---------------------------------------------------------------- store
SetMax(S) == CHOOSE x \in S : \A y \in S : y <= x

\* INTEGER PRIMARY KEY: SQLite assigns the largest rowid in the table plus one
NextUserId(rows) ==
    IF rows = {} THEN 1 ELSE SetMax({u.user_id : u \in rows}) + 1

NextSubmissionId(rows) ==
    IF rows = {} THEN 1 ELSE SetMax({s.submission_id : s \in rows}) + 1

\* the column declared without unique=True
UniqueViolation_Off(rows, slack_id) == FALSE

\* slack_id = Column(String, unique=True): the INSERT fails when the value is taken
UniqueViolation(rows, slack_id) == \E u \in rows : u.slack_id = slack_id

\* session.query(User).get(user_id): the row with that primary key, if any
QueryGet(rows, user_id) == {u \in rows : u.user_id = user_id}

\* session.query(User).filter_by(slack_id=...).first(): the first matching row
QueryFirstBySlack(rows, slack_id) ==
    LET m == {u \in rows : u.slack_id = slack_id}
    IN  {u \in m : \A v \in m : u.user_id <= v.user_id}

\* the count taken without the author filter
QueryCount_All(rows, author_id) == Cardinality(rows)

\* session.query(Submission).filter_by(author_id=...).count()
QueryCount(rows, author_id) == Cardinality({s \in rows : s.author_id = author_id})

\* payload.dict(exclude_unset=True): only the fields the request body named
PayloadDict(payload) == [f \in payload.fields_set |-> payload[f]]

\* the assignment of updated_at left out
SetAttrs_NoStamp(user, data, stamp) ==
    [k \in DOMAIN user |-> IF k \in DOMAIN data THEN data[k] ELSE user[k]]

\* for k, v in data.items(): setattr(user, k, v); user.updated_at = utcnow()
SetAttrs(user, data, stamp) ==
    [k \in DOMAIN user |->
        IF k \in DOMAIN data THEN data[k]
        ELSE IF k = "updated_at" THEN stamp
        ELSE user[k]]

\* session.commit() of a modified object: the unit of work emits
\* UPDATE users SET <the attributes whose value differs from the loaded one>
\* WHERE user_id = <pk>; an attribute assigned the value it was loaded with
\* is not part of the statement
Dirty(loaded, user) == {k \in DOMAIN user : user[k] # loaded[k]}

FlushUpdate(rows, loaded, user) ==
    {IF u.user_id = loaded.user_id
        THEN [k \in DOMAIN u |-> IF k \in Dirty(loaded, user) THEN user[k] ELSE u[k]]
        ELSE u : u \in rows}

\* ---------------------------------------------------------------- requests
Idle ==
    [op |-> "idle", pc |-> "idle", user_id |-> 0, data |-> [f \in {} |-> None],
     loaded |-> {}, user |-> {}, session |-> FALSE]

\* What a request ends with: the status, the {"user": ...} or {"count": ...}
\* body, and whether its session is still open at that moment
Response(op, status, user, count, session_open) ==
    [op |-> op, status |-> status, user |-> user, count |-> count,
     session_open |-> session_open]

NoResponse == Response("none", 0, {}, 0, FALSE)

\* A request that will span several round trips is taken by the first idle
\* worker thread
Takes(w) ==
    /\ req[w].op = "idle"
    /\ \A v \in Workers : v < w => req[v].op # "idle"

\* A request the worker is handling takes its next step
Continues(w, op, pc) ==
    /\ resp = NoResponse
    /\ req[w].op = op
    /\ req[w].pc = pc

Init ==
    /\ users = {}
    /\ submissions = {}
    /\ now = 0
    /\ req = [w \in Workers |-> Idle]
    /\ resp = NoResponse
    /\ created = {}
    /\ recorded = [a \in UserIds |-> 0]

\* create_user, lines 47-50: open the session, add the object, commit.  The
\* INSERT evaluates the created_at and updated_at defaults one after the other.
\* A taken slack_id makes the commit raise IntegrityError: the handler has no
\* except/finally, so the request ends there (500) with session.close() not run.
create_user_commit(payload) ==
    /\ resp = NoResponse
    /\ IF UniqueViolation(users, payload.slack_id)
       THEN /\ resp' = Response("create_user", 500, {}, 0, TRUE)
            /\ UNCHANGED <<users, submissions, now, req, created, recorded>>
       ELSE /\ now + 2 <= MaxClock
            /\ \E w \in Workers, d \in 0..1 :
                 LET id   == NextUserId(users)
                     user == User(id, payload.slack_id, payload.display_name,
                                  now + 1, now + 1 + d)
                 IN  /\ Takes(w)
                     /\ users' = users \cup {user}
                     /\ now' = now + 1 + d
                     /\ req' = [req EXCEPT ![w] =
                                  [Idle EXCEPT !.op = "create_user", !.pc = "refresh",
                                               !.user_id = id, !.session = TRUE]]
                     /\ created' = created \cup
                                  {[user_id |-> id, slack_id |-> payload.slack_id,
                                    display_name |-> payload.display_name]}
            /\ UNCHANGED <<submissions, resp, recorded>>

\* create_user, lines 51-53: refresh the object from its row, close the
\* session, return the object
create_user_return(w) ==
    /\ Continues(w, "create_user", "refresh")
    /\ resp' = Response("create_user", 200,
                        QueryGet(users, req[w].user_id), 0, FALSE)
    /\ req' = [req EXCEPT ![w] = Idle]
    /\ UNCHANGED <<users, submissions, now, created, recorded>>

\* get_user_by_slack, lines 57-62: the session is closed (line 59) before the
\* not-found check
get_user_by_slack(slack_id) ==
    LET user == QueryFirstBySlack(users, slack_id)
    IN  /\ resp = NoResponse
        /\ resp' = Response("get_user_by_slack",
                            IF user = {} THEN 404 ELSE 200, user, 0, FALSE)
        /\ UNCHANGED <<users, submissions, now, req, created, recorded>>

\* get_user without the "if not user" check
get_user_nocheck(user_id) ==
    /\ resp = NoResponse
    /\ resp' = Response("get_user", 200, QueryGet(users, user_id), 0, FALSE)
    /\ UNCHANGED <<users, submissions, now, req, created, recorded>>

\* get_user, lines 66-71: the session is closed (line 68) before the
\* not-found check
get_user(user_id) ==
    LET user == QueryGet(users, user_id)
    IN  /\ resp = NoResponse
        /\ resp' = Response("get_user",
                            IF user = {} THEN 404 ELSE 200, user, 0, FALSE)
        /\ UNCHANGED <<users, submissions, now, req, created, recorded>>

\* update_user, lines 75-83: load the user; absent: close and 404; present:
\* assign the payload's set fields and a fresh updated_at to the loaded object
update_user_load(user_id, payload) ==
    /\ resp = NoResponse
    /\ LET found == QueryGet(users, user_id)
           data  == PayloadDict(payload)
       IN  IF found = {}
           THEN /\ resp' = Response("update_user", 404, {}, 0, FALSE)
                /\ UNCHANGED <<users, submissions, now, req, created, recorded>>
           ELSE /\ now + 1 <= MaxClock
                /\ \E w \in Workers :
                     /\ Takes(w)
                     /\ req' = [req EXCEPT ![w] =
                          [op |-> "update_user", pc |-> "commit", user_id |-> user_id,
                           data |-> data, loaded |-> found,
                           user |-> {SetAttrs(u, data, now + 1) : u \in found},
                           session |-> TRUE]]
                /\ now' = now + 1
                /\ UNCHANGED <<users, submissions, resp, created, recorded>>

\* update_user, line 84: session.commit() flushes the UPDATE and expires the
\* object's loaded attributes
update_user_commit(w) ==
    /\ Continues(w, "update_user", "commit")
    /\ \E loaded \in req[w].loaded, user \in req[w].user :
         users' = FlushUpdate(users, loaded, user)
    /\ req' = [req EXCEPT ![w].pc = "refresh", ![w].loaded = {}, ![w].user = {}]
    /\ created' = {c \in created : c.user_id # req[w].user_id}
    /\ UNCHANGED <<submissions, now, resp, recorded>>

\* update_user, lines 85-87: refresh the object from its row, close the
\* session, return the object
update_user_return(w) ==
    /\ Continues(w, "update_user", "refresh")
    /\ resp' = Response("update_user", 200,
                        QueryGet(users, req[w].user_id), 0, FALSE)
    /\ req' = [req EXCEPT ![w] = Idle]
    /\ UNCHANGED <<users, submissions, now, created, recorded>>

\* submissions_count, lines 91-94: no check that the author exists
submissions_count(author_id) ==
    /\ resp = NoResponse
    /\ resp' = Response("submissions_count", 200, {},
                        QueryCount(submissions, author_id), FALSE)
    /\ UNCHANGED <<users, submissions, now, req, created, recorded>>

\* The external collaborator records a submission for an existing user
\* (author_id references users.user_id)
RecordSubmission(author_id) ==
    /\ resp = NoResponse
    /\ Cardinality(submissions) < MaxSubs
    /\ QueryGet(users, author_id) # {}
    /\ submissions' = submissions \cup
                      {Submission(NextSubmissionId(submissions), author_id)}
    /\ recorded' = [recorded EXCEPT ![author_id] = @ + 1]
    /\ UNCHANGED <<users, now, req, resp, created>>

\* The response of the request that ended reaches its client
Deliver ==
    /\ resp # NoResponse
    /\ resp' = NoResponse
    /\ UNCHANGED <<users, submissions, now, req, created, recorded>>

Next ==
    \/ \E payload \in UserCreate : create_user_commit(payload)
    \/ \E w \in Workers : create_user_return(w)
    \/ \E slack_id \in SlackIds : get_user_by_slack(slack_id)
    \/ \E user_id \in UserIds : get_user(user_id)
    \/ \E user_id \in UserIds, payload \in UpdateInputs :
          update_user_load(user_id, payload)
    \/ \E w \in Workers : update_user_commit(w)
    \/ \E w \in Workers : update_user_return(w)
    \/ \E author_id \in UserIds : submissions_count(author_id)
    \/ Deliver

\* The service and its clients: nothing in it writes table "submissions"
Spec == Init /\ [][Next]_vars

\* The service next to the collaborator that records submissions, with clients
\* that create users, read them and count submissions
NextCollab ==
    \/ \E payload \in UserCreate : create_user_commit(payload)
    \/ \E w \in Workers : create_user_return(w)
    \/ \E slack_id \in SlackIds : get_user_by_slack(slack_id)
    \/ \E user_id \in UserIds : get_user(user_id)
    \/ \E author_id \in UserIds : submissions_count(author_id)
    \/ \E author_id \in UserIds : RecordSubmission(author_id)
    \/ Deliver

SpecCollab == Init /\ [][NextCollab]_vars

\* ---------------------------------------------------------------- claims
OtherRows(rows, user_id) == {u \in rows : u.user_id # user_id}

Known(user_id) == \E u \in users : u.user_id = user_id

KnownSlack(slack_id) == \E u \in users : u.slack_id = slack_id

\* C1: a user created with (S, D) and fetched by S, after the create has
\* returned and before any update has written it, comes back with slack_id S, display_name D, the three counters
\* at 0 and created_at equal to updated_at.
C1_CreateThenGet ==
    [][\A c \in created :
          (/\ get_user_by_slack(c.slack_id)
           /\ \A w \in Workers : req[w].op = "create_user" => req[w].user_id # c.user_id) =>
            /\ resp'.status = 200
            /\ resp'.user # {}
            /\ \A u \in resp'.user :
                 /\ u.slack_id = c.slack_id
                 /\ u.display_name = c.display_name
                 /\ u.total_xp = <<0>>
                 /\ u.current_streak = <<0>>
                 /\ u.longest_streak = <<0>>
                 /\ u.created_at = u.updated_at]_vars

\* C2: the commit of an update of user U with payload data P leaves U with
\* P's value in every field P names and with its old value in every field P
\* omits, keeps U's user_id, slack_id and created_at, and changes no other
\* user and no submission.
C2_UpdateFrame ==
    [][\A w \in Workers :
          update_user_commit(w) =>
            /\ \A u \in QueryGet(users, req[w].user_id) :
                 \E v \in QueryGet(users', req[w].user_id) :
                   /\ \A f \in DOMAIN req[w].data : v[f] = req[w].data[f]
                   /\ \A f \in Fields \ DOMAIN req[w].data : v[f] = u[f]
                   /\ v.user_id = u.user_id
                   /\ v.slack_id = u.slack_id
                   /\ v.created_at = u.created_at
            /\ OtherRows(users', req[w].user_id) = OtherRows(users, req[w].user_id)
            /\ submissions' = submissions]_vars

\* C3: a get by internal id, a get by external id and an update whose key
\* matches no stored user answer 404 with no user record, and leave the store
\* as it was.
C3_NotFound ==
    [][/\ \A user_id \in UserIds :
            (~Known(user_id) /\ get_user(user_id)) =>
              (resp'.status = 404 /\ resp'.user = {}
               /\ users' = users /\ submissions' = submissions)
       /\ \A slack_id \in SlackIds :
            (~KnownSlack(slack_id) /\ get_user_by_slack(slack_id)) =>
              (resp'.status = 404 /\ resp'.user = {}
               /\ users' = users /\ submissions' = submissions)
       /\ \A user_id \in UserIds, payload \in UpdateInputs :
            (~Known(user_id) /\ update_user_load(user_id, payload)) =>
              (resp'.status = 404 /\ resp'.user = {} /\ req' = req
               /\ users' = users /\ submissions' = submissions)]_vars

C3_Witness ==
    /\ resp.op = "update_user"
    /\ resp.status = 404
    /\ users # {}

\* C4: no two stored users have the same slack_id, and no two have the same
\* user_id.
C4_Unique ==
    \A u \in users, v \in users :
        (u.slack_id = v.slack_id \/ u.user_id = v.user_id) => u = v

C4_Witness ==
    /\ Cardinality(users) = 2
    /\ Cardinality(created) < 2
    /\ \E w \in Workers : req[w].op = "update_user"

\* C5: no request ends, with a success or with an error, while its session
\* is still open.
C5_SessionReleased == resp.session_open = FALSE

\* C6: a create whose slack_id is taken ends with status 500, adds no user
\* and changes no stored row.
C6_DuplicateCreate ==
    [][\A payload \in UserCreate :
          (KnownSlack(payload.slack_id) /\ create_user_commit(payload)) =>
            /\ resp'.status = 500
            /\ resp'.user = {}
            /\ users' = users
            /\ submissions' = submissions]_vars

C6_Witness ==
    /\ resp.op = "create_user"
    /\ resp.status = 500
    /\ Cardinality(users) = 2

\* C7: the count for author A is the number of stored submissions whose
\* author_id is A, which is the number recorded for A so far, and is 0 with
\* status 200 when A is no stored user.
C7_Count ==
    [][\A author_id \in UserIds :
          submissions_count(author_id) =>
            /\ resp'.status = 200
            /\ resp'.count = Cardinality({s \in submissions : s.author_id = author_id})
            /\ resp'.count = recorded[author_id]
            /\ ~Known(author_id) => resp'.count = 0]_vars

C7_Witness ==
    /\ resp.op = "submissions_count"
    /\ resp.count = 2
    /\ Cardinality(submissions) = 3

\* C8: the commit of every update, whatever its payload, stores an updated_at strictly greater than
\* the stored one it replaces, and keeps created_at.
C8_UpdatedAtIncreases ==
    [][\A w \in Workers :
          update_user_commit(w) =>
            \A u \in QueryGet(users, req[w].user_id) :
              \E v \in QueryGet(users', req[w].user_id) :
                /\ v.updated_at > u.updated_at
                /\ v.created_at = u.created_at]_vars

\* C8 as amended: the commit of every update, whatever its payload, stores
\* the updated_at that request read from the clock, which is strictly greater
\* than the updated_at the request loaded, and so than the stored one unless
\* another update of the same user committed since the load; created_at is kept.
C8_UpdatedAtRefreshed ==
    [][\A w \in Workers :
          update_user_commit(w) =>
            \A u \in QueryGet(users, req[w].user_id), l \in req[w].loaded,
               o \in req[w].user :
              \E v \in QueryGet(users', req[w].user_id) :
                /\ v.updated_at = o.updated_at
                /\ v.updated_at > l.updated_at
                /\ u = l => v.updated_at > u.updated_at
                /\ v.created_at = u.created_at]_vars

C8_Witness ==
    \E w \in Workers, u \in users :
        /\ req[w].op = "update_user"
        /\ req[w].pc = "refresh"
        /\ DOMAIN req[w].data = {}
        /\ u.user_id = req[w].user_id
        /\ u.updated_at > u.created_at

\* C9: when an update commits while another update of the same user, already
\* committed, is still in flight, every field both payloads name holds the
\* value of the one that commits last.
C9_LastWriteWins ==
    [][\A w \in Workers, v \in Workers :
          (/\ w # v
           /\ update_user_commit(w)
           /\ req[v].op = "update_user"
           /\ req[v].pc = "refresh"
           /\ req[v].user_id = req[w].user_id) =>
            \A u \in QueryGet(users', req[w].user_id) :
              \A f \in DOMAIN req[w].data \cap DOMAIN req[v].data :
                u[f] = req[w].data[f]]_vars

\* C10: the commit of an update stores null in every field its payload names
\* with the value null, and leaves every field its payload omits as stored.
C10_NullVersusOmitted ==
    [][\A w \in Workers :
          update_user_commit(w) =>
            \A u \in QueryGet(users, req[w].user_id) :
              \E v \in QueryGet(users', req[w].user_id) :
                \A f \in Fields :
                  /\ (f \in DOMAIN req[w].data /\ req[w].data[f] = None) => v[f] = None
                  /\ f \notin DOMAIN req[w].data => v[f] = u[f]]_vars

====
